---- MODULE Spec2Model ----
(***************************************************************************)
(* The CMS content-loading pipeline of the blog: fetchWithRetry, the      *)
(* posts loader (cmsLoader) and the media loader (mediaLoader).           *)
(*                                                                         *)
(* One load cycle is one run of Loader.load.  Every await of the code is  *)
(* a point where another event of the JavaScript event loop may run; an   *)
(* action of the model is one event (a response, a transport failure, a   *)
(* timer) together with everything the code runs synchronously after it.  *)
(***************************************************************************)
EXTENDS Integers, Sequences, FiniteSets, TLC

VARIABLES
  loader,        \* "cms" | "media" | "none" (fetchWithRetry called on its own)
  batchSize,     \* options.batchSize
  remote,        \* number of items of the remote dataset
  pc,            \* where load is suspended
  store,         \* the content store: identifier -> entry
  total,         \* countData.total / data.total
  totalBatches,  \* Math.ceil(total / batchSize)
  groupStart,    \* first batch index of the group being awaited
  reqs,          \* the fetchWithRetry calls of the cycle, in call order
  allPosts,      \* cmsLoader: the aggregated list
  photos,        \* mediaLoader: data.photos / nextData.photos being iterated
  offset,        \* mediaLoader: offset of the page loop
  idx,           \* index (1-based) of the item being processed
  step,          \* what the item being processed awaits
  totalFetched,  \* the counter reported at the end of load
  logged,        \* the logger.error calls of the cycle, in order
  caught,        \* the items skipped in the cycle (their catch ran), in order
  setCalls,      \* the store.set calls of the cycle, in order (item numbers)
  faults,        \* failures injected so far (transport and item failures)
  outOfOrder,    \* some group completed in another order than it was issued
  failure,       \* "none", or the stage in which load threw
  clears,        \* the store.clear calls of the cycle
  cycle,         \* 1 in the first load cycle, 2 in the one after it
  first,         \* what the first cycle left and met, once it is over
  old,           \* the requests of the first cycle that are not over yet
  post,          \* transformPostToEntry called on its own: the argument
  entry,         \* ... and its result
  cmsApiUrl,     \* import.meta.env.CMS_API_URL
  collections,   \* the loaders of the blog and photos collections
  photosMeta,    \* photos route: the module-level list photos
  _data,         \* photos route: the memoised list
  _dataPromise,  \* photos route: the promise of the processing body
  body,          \* photos route: the processing body (its await, its list)
  callers        \* photos route: the calls of processPhotos

vars == << loader, batchSize, remote, pc, store, total, totalBatches,
           groupStart, reqs, allPosts, photos, offset, idx, step,
           totalFetched, logged, caught, setCalls, faults, outOfOrder,
           failure, clears, cycle, first, old, post, entry, cmsApiUrl, collections,
           photosMeta, _data, _dataPromise, body, callers >>

\* The state of the loaders, of transformPostToEntry and of the config.
loaderVars == << loader, batchSize, remote, pc, store, total, totalBatches,
                 groupStart, reqs, allPosts, photos, offset, idx, step,
                 totalFetched, logged, caught, setCalls, faults, outOfOrder,
                 failure, clears, cycle, first, old, post, entry, cmsApiUrl, collections >>

\* The state of the photos route.
routeVars == << photosMeta, _data, _dataPromise, body, callers >>

---------------------------------------------------------------------------
(* Bounds of the model *)

MaxTotal == 5
MaxBatchSize == 2
MaxRetriesArg == 4
NumIds == 2

MaxTotalDrift == 2
MaxTotalTwice == 3
MaxTotalConfig == 2
MaxTotalLive == 3
MaxSlugLen == 4
MaxPhotos == 2
MaxCallers == 3
MaxPathLen == 3
MaxTags == 2
MaxMissing == 1

(* Program constants *)

DefaultMaxRetries == 3
DefaultRetryDelay == 1000
parallelRequests == 4

\* The failures the environment injects in one cycle (failed attempts,
\* non-2xx responses, failed or stalled bodies, failing items): as many as
\* it takes one fetchWithRetry call of a loader to give up.
MaxFaults == DefaultMaxRetries

RetryDelays == {DefaultRetryDelay, 250}
Statuses == {200, 500}
FailureKinds == {"network", "timeout"}

Min(a, b) == IF a < b THEN a ELSE b
Max(a, b) == IF a > b THEN a ELSE b

---------------------------------------------------------------------------
(* fetchWithRetry *)

NoError == [kind |-> "none", attempt |-> 0]
GenericError == [kind |-> "generic", attempt |-> 0]

\* response.ok
Ok(status) == status >= 200 /\ status <= 299

\* The remote API: the items offset+1 .. offset+limit of the dataset.
Serve(n, off, limit) == [i \in 1..Min(limit, Max(0, n - off)) |-> off + i]

\* for (...; attempt <= maxRetries; ...)
\* (LoopContinuesOffByOne: the loop with one attempt too many.)
LoopContinuesOffByOne(attempt, maxRetries) == attempt <= maxRetries + 1
LoopContinues(attempt, maxRetries) == attempt <= maxRetries

\* if (attempt < maxRetries)
ShouldWait(attempt, maxRetries) == attempt < maxRetries

\* const waitTime = retryDelay * attempt
\* (WaitTimeConstant: a backoff that does not grow.)
WaitTimeConstant(retryDelay, attempt) == retryDelay
WaitTime(retryDelay, attempt) == retryDelay * attempt

\* Top of the loop body: a new controller, a new timer, fetch is called.
\* After the loop: throw lastError || new Error(...).
EnterLoop(r) ==
  IF LoopContinues(r.attempt, r.maxRetries)
  THEN [r EXCEPT !.st = "inflight", !.timers = @ \cup {r.attempt},
                 !.calls = @ + 1]
  ELSE [r EXCEPT !.st = "thrown",
                 !.error = IF r.lastError = NoError THEN GenericError
                           ELSE r.lastError]

\* The call itself: runs synchronously up to the first await.
FetchWithRetry(limit, off, maxRetries, retryDelay) ==
  EnterLoop([limit |-> limit, offset |-> off, maxRetries |-> maxRetries,
             retryDelay |-> retryDelay, st |-> "new", attempt |-> 1,
             calls |-> 0, lastError |-> NoError, error |-> NoError,
             fails |-> 0, waited |-> 0, timers |-> {}, status |-> 0,
             posts |-> << >>, total |-> 0, body |-> "none"])

\* fetch resolved: clearTimeout(timeoutId); return response.  The
\* response carries the status; its body (posts, total: what the server
\* holds for the requested page) is on its way and is read by the caller,
\* if it calls response.json().
\* (OnResponseRetrying: a fetchWithRetry that treats a non-2xx response as
\* a failed attempt.)
OnResponseRetrying(r, status, n) ==
  IF Ok(status)
  THEN [r EXCEPT !.st = "returned", !.status = status,
                 !.timers = @ \ {r.attempt},
                 !.posts = Serve(n, r.offset, r.limit), !.total = n]
  ELSE LET c == [r EXCEPT !.lastError = [kind |-> "http500",
                                         attempt |-> r.attempt],
                          !.status = status,
                          !.timers = @ \ {r.attempt}]
       IN IF ShouldWait(r.attempt, r.maxRetries)
          THEN [c EXCEPT !.st = "waiting"]
          ELSE EnterLoop([c EXCEPT !.attempt = @ + 1])
OnResponse(r, status, n) ==
  [r EXCEPT !.st = "returned", !.status = status,
            !.timers = @ \ {r.attempt},
            !.posts = IF Ok(status) THEN Serve(n, r.offset, r.limit)
                      ELSE << >>,
            !.total = IF Ok(status) THEN n ELSE 0]

\* catch (error): lastError = error; wait when attempt < maxRetries,
\* otherwise the loop goes on to attempt + 1 at once.  A timer that fired
\* is gone; the timer of an attempt that failed otherwise is not cleared.
\* (OnErrorKeepFirst: lastError keeps the first error.  OnErrorTimeoutFatal:
\* a timeout ends the call instead of being retried.)
OnErrorKeepFirst(r, kind) ==
  LET c == [r EXCEPT !.lastError = IF r.lastError = NoError
                                   THEN [kind |-> kind, attempt |-> r.attempt]
                                   ELSE r.lastError,
                     !.fails = @ + 1,
                     !.timers = IF kind = "timeout" THEN @ \ {r.attempt}
                                ELSE @]
  IN IF ShouldWait(r.attempt, r.maxRetries)
     THEN [c EXCEPT !.st = "waiting"]
     ELSE EnterLoop([c EXCEPT !.attempt = @ + 1])
OnErrorTimeoutFatal(r, kind) ==
  LET c == [r EXCEPT !.lastError = [kind |-> kind, attempt |-> r.attempt],
                     !.fails = @ + 1,
                     !.timers = IF kind = "timeout" THEN @ \ {r.attempt}
                                ELSE @]
  IN IF kind = "timeout"
     THEN [c EXCEPT !.st = "thrown", !.error = c.lastError]
     ELSE IF ShouldWait(r.attempt, r.maxRetries)
          THEN [c EXCEPT !.st = "waiting"]
          ELSE EnterLoop([c EXCEPT !.attempt = @ + 1])
OnError(r, kind) ==
  LET c == [r EXCEPT !.lastError = [kind |-> kind, attempt |-> r.attempt],
                     !.fails = @ + 1,
                     !.timers = IF kind = "timeout" THEN @ \ {r.attempt}
                                ELSE @]
  IN IF ShouldWait(r.attempt, r.maxRetries)
     THEN [c EXCEPT !.st = "waiting"]
     ELSE EnterLoop([c EXCEPT !.attempt = @ + 1])

\* The backoff timer fired: the loop goes on to attempt + 1.
AfterWait(r) ==
  EnterLoop([r EXCEPT !.waited = @ + WaitTime(r.retryDelay, r.attempt),
                      !.attempt = @ + 1])

\* The request is over for its caller.
Settled(r) == r.st \in {"returned", "thrown"}

\* await response.json() of the caller: the body is being read ("reading"),
\* has been parsed ("read"), the read rejected ("failed": the stream broke
\* or the body is not JSON), or the rest of the body never comes
\* ("stalled": the timer of the attempt was cleared when fetch resolved, so
\* nothing ends the read).

\* What the caller awaits of the request has settled: fetchWithRetry
\* threw, the response is one whose body the caller does not read, or the
\* read of the body is over.
Delivered(r) ==
  \/ r.st = "thrown"
  \/ /\ r.st = "returned"
     /\ ~Ok(r.status) \/ r.body \in {"read", "failed"}

---------------------------------------------------------------------------
(* transformPostToEntry *)

\* A string is a sequence of characters.  A value that may be missing is
\* null (Null), or undefined (Undefined: also what reading a key the
\* object does not have gives), or Some(v).
Chars == {"a", "b", "/"}
TagNames == {"t1", "t2"}

Null == << >>
Undefined == << "undefined", "undefined" >>
Some(v) == << v >>

\* o == null: what ?. and ?? test, and what makes a property access throw
Nullish(o) == o = Null \/ o = Undefined

Strings(n) == UNION {[1..k -> Chars] : k \in 0..n}

\* str.includes(c)
Includes(str, c) == \E i \in 1..Len(str) : str[i] = c

\* str.split(c): the pieces between the separators, empty ones included.
RECURSIVE Split(_, _)
Split(str, c) ==
  IF ~Includes(str, c) THEN << str >>
  ELSE LET i == CHOOSE i \in 1..Len(str) :
                  str[i] = c /\ \A j \in 1..(i - 1) : str[j] # c
       IN << SubSeq(str, 1, i - 1) >> \o Split(SubSeq(str, i + 1, Len(str)), c)

\* arr.pop(): the last element
Pop(arr) == arr[Len(arr)]

\* a || b for strings: the empty string is falsy
OrElse(a, b) == IF a = << >> THEN b ELSE a

\* post.postTags?.map((pt) => pt.tag.name): undefined when postTags is
\* null or undefined
MapTagNames(p) ==
  IF Nullish(p.postTags) THEN Undefined
  ELSE Some([n \in 1..Len(p.postTags[1]) |-> p.postTags[1][n].tag.name])

\* const tags = ... || []: an array, even an empty one, is truthy
\* (TagsNoDefault: the fallback to [] left out.)
TagsNoDefault(p) == MapTagNames(p)
Tags(p) ==
  IF MapTagNames(p) = Undefined THEN Some(<< >>) ELSE MapTagNames(p)

\* const categoryPath = post.categoryPath || ''
CategoryPath(p) ==
  IF Nullish(p.categoryPath) THEN << >> ELSE p.categoryPath[1]

\* const actualSlug = post.slug.includes('/')
\*   ? post.slug.split('/').pop() || post.slug : post.slug
ActualSlug(slug) ==
  IF Includes(slug, "/") THEN OrElse(Pop(Split(slug, "/")), slug) ELSE slug

\* const id = categoryPath ? `${categoryPath}/${actualSlug}` : actualSlug
EntryId(categoryPath, actualSlug) ==
  IF categoryPath # << >> THEN categoryPath \o << "/" >> \o actualSlug
  ELSE actualSlug

\* a || b for a string that may be null or undefined
TruthyStr(o) == ~Nullish(o) /\ o[1] # ""

\* new Date(str)
Date(str) == [date |-> str]

\* pubDate: new Date(post.pubDate).  new Date(null) is the epoch,
\* new Date(undefined) is an invalid date.
PubDate(p) ==
  IF p.pubDate = Null THEN Date("1970-01-01T00:00:00.000Z")
  ELSE IF p.pubDate = Undefined THEN Date("Invalid Date")
  ELSE Date(p.pubDate[1])

\* lastModDate: post.lastModDate ? new Date(post.lastModDate) : undefined
LastModDate(p) ==
  IF TruthyStr(p.lastModDate) THEN Some(Date(p.lastModDate[1]))
  ELSE Undefined

\* minutesRead: post.minutesRead || undefined
MinutesRead(p) ==
  IF ~Nullish(p.minutesRead) /\ p.minutesRead[1] # 0 THEN p.minutesRead
  ELSE Undefined

\* const category = post.categoryNamePath || post.category?.name || ''
Category(p) ==
  IF TruthyStr(p.categoryNamePath) THEN p.categoryNamePath
  ELSE IF ~Nullish(p.category) /\ TruthyStr(p.category[1].name)
       THEN p.category[1].name
       ELSE Some("")

\* The fields of the post the data literal copies as they are.
PassThrough ==
  {"title", "radio", "video", "toc", "share", "giscus", "search", "draft"}

DataKeys ==
  PassThrough \cup {"subtitle", "description", "pubDate", "lastModDate",
                    "minutesRead", "platform", "ogImage", "category", "tags"}

\* The data literal: a copied field is what the post holds (null stays
\* null, a missing one is undefined).
RawData(p) ==
  [key \in DataKeys |->
     CASE key \in PassThrough -> p[key]
       [] key = "subtitle" ->
            IF TruthyStr(p.subtitle) THEN p.subtitle ELSE Some("")
       [] key = "description" ->
            IF TruthyStr(p.excerpt) THEN p.excerpt ELSE Some("")
       [] key = "pubDate" -> Some(PubDate(p))
       [] key = "lastModDate" -> LastModDate(p)
       [] key = "minutesRead" -> MinutesRead(p)
       [] key = "platform" ->
            IF TruthyStr(p.platform) THEN p.platform ELSE Some("")
       [] key = "ogImage" ->
            IF TruthyStr(p.ogImage) THEN p.ogImage ELSE Some(TRUE)
       [] key = "category" -> Category(p)
       [] key = "tags" -> Tags(p)]

\* Object.keys(data).forEach: delete the keys whose value is undefined
\* (=== undefined: a null value keeps its key).  The values that stay are
\* Null or Some(v).
Prune(data) ==
  [key \in {k \in DOMAIN data : data[k] # Undefined} |-> data[key]]

\* A post with every field set, without category and tags.
TypicalPost ==
  [slug |-> Some(<< "a" >>), categoryPath |-> Null, postTags |-> Null,
   title |-> Some("t"), subtitle |-> Some("s"), excerpt |-> Some("e"),
   pubDate |-> Some("2024-01-01"), lastModDate |-> Some("2024-02-02"),
   minutesRead |-> Some(5), platform |-> Some("p"), ogImage |-> Some("o"),
   categoryNamePath |-> Null, category |-> Null,
   radio |-> Some(FALSE), video |-> Some(FALSE), toc |-> Some(TRUE),
   share |-> Some(TRUE), giscus |-> Some(TRUE), search |-> Some(TRUE),
   draft |-> Some(FALSE)]

NoPost == [TypicalPost EXCEPT !.slug = Null]
NoEntry == [st |-> "none", id |-> << >>, data |-> [key \in {} |-> << >>]]

\* The whole function.  post.slug.includes throws when the post has no
\* slug.
TransformPostToEntry(p) ==
  IF Nullish(p.slug) THEN [NoEntry EXCEPT !.st = "thrown"]
  ELSE [st |-> "returned",
        id |-> EntryId(CategoryPath(p), ActualSlug(p.slug[1])),
        data |-> Prune(RawData(p))]

---------------------------------------------------------------------------
(* The state as one record, so that the code that runs synchronously      *)
(* after an event can be composed from the pieces below.                  *)

Cur ==
  [loader |-> loader, batchSize |-> batchSize, remote |-> remote, pc |-> pc,
   store |-> store, total |-> total, totalBatches |-> totalBatches,
   groupStart |-> groupStart, reqs |-> reqs, allPosts |-> allPosts,
   photos |-> photos, offset |-> offset, idx |-> idx, step |-> step,
   totalFetched |-> totalFetched, logged |-> logged, caught |-> caught,
   setCalls |-> setCalls,
   faults |-> faults, outOfOrder |-> outOfOrder, failure |-> failure,
   clears |-> clears, cycle |-> cycle, first |-> first, old |-> old,
   post |-> post,
   entry |-> entry, cmsApiUrl |-> cmsApiUrl, collections |-> collections]

Install(s) ==
  /\ loader' = s.loader
  /\ batchSize' = s.batchSize
  /\ remote' = s.remote
  /\ pc' = s.pc
  /\ store' = s.store
  /\ total' = s.total
  /\ totalBatches' = s.totalBatches
  /\ groupStart' = s.groupStart
  /\ reqs' = s.reqs
  /\ allPosts' = s.allPosts
  /\ photos' = s.photos
  /\ offset' = s.offset
  /\ idx' = s.idx
  /\ step' = s.step
  /\ totalFetched' = s.totalFetched
  /\ logged' = s.logged
  /\ caught' = s.caught
  /\ setCalls' = s.setCalls
  /\ faults' = s.faults
  /\ outOfOrder' = s.outOfOrder
  /\ failure' = s.failure
  /\ clears' = s.clears
  /\ cycle' = s.cycle
  /\ first' = s.first
  /\ old' = s.old
  /\ post' = s.post
  /\ entry' = s.entry
  /\ cmsApiUrl' = s.cmsApiUrl
  /\ collections' = s.collections
  /\ UNCHANGED routeVars

EmptyStore == [id \in {} |-> 0]

\* The identifier an item maps to (entry.id): item k and item k + NumIds
\* of the dataset map to the same identifier.
IdOf(k) == ((k - 1) % NumIds) + 1

\* store.clear()
\* (StoreClearKeeps: the call left out.)
StoreClearKeeps(s) == s
StoreClear(s) == [s EXCEPT !.store = EmptyStore, !.clears = @ + 1]

\* store.set({id, data, ...}); totalFetched++
\* (StoreSetFirstWins: an identifier the store holds is not overwritten.)
StoreSetFirstWins(s, k) ==
  [s EXCEPT !.store = [id \in (DOMAIN s.store) \cup {IdOf(k)} |->
                         IF id \in DOMAIN s.store THEN s.store[id] ELSE k],
            !.setCalls = Append(@, k),
            !.totalFetched = @ + 1]
StoreSet(s, k) ==
  [s EXCEPT !.store = [id \in (DOMAIN s.store) \cup {IdOf(k)} |->
                         IF id = IdOf(k) THEN k ELSE s.store[id]],
            !.setCalls = Append(@, k),
            !.totalFetched = @ + 1]

\* logger.error(`Error processing post ${post.slug}: ${err}`) /
\* logger.error(`Error processing media ${item.id}: ${err}`) of the catch
\* around item k: the message holds the error of the step that failed and
\* names the item by its slug or id, or, when the item has none, names
\* "undefined" (item 0: no item).
LogItemError(s, k, named) ==
  [s EXCEPT !.logged = Append(@, [lvl |-> "item",
                                  item |-> IF named THEN k ELSE 0,
                                  cause |-> s.step,
                                  names |-> IF named THEN "item"
                                            ELSE "undefined"]),
            !.caught = Append(@, k)]

\* What the message of the error load throws names besides its cause: the
\* URL (mediaLoader, first page), the resource ("Failed to get post
\* count", "Failed to fetch posts": the non-2xx responses of cmsLoader), or
\* nothing (the error fetchWithRetry or response.json() threw, as it is).
Names(s, stage, cause) ==
  IF cause = "body" THEN "none"
  ELSE IF stage = "fetch" /\ s.pc = "first" THEN "url"
  ELSE IF stage = "fetch" /\ cause = "http500" THEN "resource"
       ELSE "none"

\* The outer catch of load: logger.error(`... loader error: ${err}`); throw
Fail(s, stage, cause) ==
  [s EXCEPT !.pc = "failed", !.failure = stage, !.step = "none",
            !.logged = Append(@, [lvl |-> "loader", item |-> 0,
                                  cause |-> cause,
                                  names |-> Names(s, stage, cause)])]

\* What the rejection of a request says: the transport error, the
\* status of the response the caller refused, or the error of
\* response.json().
CauseOf(r) ==
  IF r.st = "thrown" THEN r.error.kind
  ELSE IF ~Ok(r.status) THEN "http500" ELSE "body"

\* load returns
Done(s) == [s EXCEPT !.pc = "done", !.step = "none"]

\* Math.ceil(total / batchSize)
\* (CeilFloor: Math.floor in its place.)
\* (CeilAtLeastOne: one batch at least, whatever the total.)
CeilFloor(t, b) == t \div b
CeilAtLeastOne(t, b) ==
  IF t = 0 THEN 1 ELSE IF t % b = 0 THEN t \div b ELSE (t \div b) + 1
Ceil(t, b) == IF t % b = 0 THEN t \div b ELSE (t \div b) + 1

---------------------------------------------------------------------------
(* mediaLoader: the page loop *)

\* while (offset < data.total) { nextResponse = await fetchWithRetry(...)
\* (MediaPageLoopInclusive: offset <= data.total as the loop condition.)
MediaPageLoopInclusive(s) ==
  IF s.offset <= s.total
  THEN [s EXCEPT !.pc = "page", !.step = "none",
                 !.reqs = Append(@, FetchWithRetry(s.batchSize, s.offset,
                             DefaultMaxRetries, DefaultRetryDelay))]
  ELSE Done(s)
MediaPageLoop(s) ==
  IF s.offset < s.total
  THEN [s EXCEPT !.pc = "page", !.step = "none",
                 !.reqs = Append(@, FetchWithRetry(s.batchSize, s.offset,
                             DefaultMaxRetries, DefaultRetryDelay))]
  ELSE Done(s)

\* After the items of a page: if (data.total > batchSize) { offset =
\* batchSize; while ... } after the first page, offset += batchSize after
\* a later one.
MediaAfterItems(s) ==
  IF s.offset = 0
  THEN IF s.total > s.batchSize
       THEN MediaPageLoop([s EXCEPT !.offset = s.batchSize])
       ELSE Done(s)
  ELSE MediaPageLoop([s EXCEPT !.offset = @ + s.batchSize])

---------------------------------------------------------------------------
(* Processing the items, one at a time *)

\* The list the for-of loop iterates
Items(s) == IF s.loader = "cms" THEN s.allPosts ELSE s.photos

\* The head of the for-of loop: the next item, or what follows the loop.
NextItem(s) ==
  IF s.idx <= Len(Items(s))
  THEN [s EXCEPT !.pc = "process", !.step = "transform"]
  ELSE IF s.loader = "cms" THEN Done(s) ELSE MediaAfterItems(s)

\* The catch around one item: log, then go on with the next item.
\* (ItemFailsSkipsNext: the item after the failing one is passed over.)
ItemFailsSkipsNext(s, named) ==
  NextItem([LogItemError(s, Items(s)[s.idx], named) EXCEPT !.idx = @ + 2])
\* (ItemFailsDeletes: the entry the store holds under the identifier of
\* the failing item is removed.)
ItemFailsDeletes(s, named) ==
  LET k == Items(s)[s.idx]
  IN NextItem([LogItemError(s, k, named) EXCEPT
                 !.idx = @ + 1,
                 !.store = [id \in (DOMAIN s.store) \ {IdOf(k)} |->
                              s.store[id]]])
\* (ItemFailsRetries: the failing item is taken up again.)
ItemFailsRetries(s, named) ==
  NextItem(LogItemError(s, Items(s)[s.idx], named))
ItemFails(s, named) ==
  NextItem([LogItemError(s, Items(s)[s.idx], named) EXCEPT !.idx = @ + 1])

\* store.set and totalFetched++ at the end of the try block of one item
ItemCommitted(s) ==
  NextItem([StoreSet(s, Items(s)[s.idx]) EXCEPT !.idx = @ + 1])

---------------------------------------------------------------------------
(* cmsLoader: the probe and the groups of batches *)

\* The requests of the group [groupStart, groupEnd) are reqs[lo..hi]
\* (reqs[1] is the probe, reqs[i + 2] is batch i).
GroupEnd(s) == Min(s.groupStart + parallelRequests, s.totalBatches)
GroupReqs(s) == (s.groupStart + 2)..(GroupEnd(s) + 1)

\* for (const posts of batchResults) allPosts.push(...posts), batchResults
\* being in the order of batchPromises whatever order they resolved in.
RECURSIVE ConcatByIndex(_, _, _)
ConcatByIndex(rs, lo, hi) ==
  IF lo > hi THEN << >> ELSE rs[lo].posts \o ConcatByIndex(rs, lo + 1, hi)

GroupResults(s) ==
  ConcatByIndex(s.reqs, s.groupStart + 2, GroupEnd(s) + 1)

\* What the settling of request i of the awaited group adds to allPosts:
\* nothing before the whole group has resolved, then all its results.
\* (AggregateAsCompleted: each result pushed when its request resolves.)
AggregateAsCompleted(s, i, groupDone) == s.allPosts \o s.reqs[i].posts
Aggregate(s, i, groupDone) ==
  IF groupDone THEN s.allPosts \o GroupResults(s) ELSE s.allPosts

\* .then(async (response) => { if (!response.ok) throw ...; return posts })
\* (BatchRejectsOnThrowOnly: the check of response.ok left out.)
BatchRejectsOnThrowOnly(r) == r.st = "thrown"
BatchRejects(r) ==
  \/ r.st = "thrown"
  \/ r.st = "returned" /\ (~Ok(r.status) \/ r.body = "failed")

\* const offset = batchIndex * batchSize
\* (BatchOffsetFromOne: batches counted from 1.)
BatchOffsetFromOne(batchIndex, size) == (batchIndex + 1) * size
BatchOffset(batchIndex, size) == batchIndex * size

\* The head of the group loop: issue every request of the next group, or
\* go on to the items.
CmsGroupLoop(s) ==
  IF s.groupStart < s.totalBatches
  THEN [s EXCEPT !.pc = "group",
         !.reqs = @ \o [j \in 1..(GroupEnd(s) - s.groupStart) |->
                          FetchWithRetry(s.batchSize,
                                         BatchOffset(s.groupStart + j - 1,
                                                     s.batchSize),
                                         DefaultMaxRetries,
                                         DefaultRetryDelay)]]
  ELSE NextItem([s EXCEPT !.idx = 1])

\* The probe settled.
CmsAfterProbe(s) ==
  LET r == s.reqs[1] IN
  IF r.st = "thrown" \/ ~Ok(r.status) \/ r.body = "failed"
  THEN Fail(s, "fetch", CauseOf(r))
  ELSE CmsGroupLoop([s EXCEPT !.total = r.total,
                              !.totalBatches = Ceil(r.total, s.batchSize),
                              !.groupStart = 0])

\* await Promise.all(batchPromises) resolves: every promise of the group
\* has settled.
\* (GroupDoneOnAny: the group awaited with Promise.race.)
GroupDoneOnAny(s) == TRUE
GroupDone(s) == \A j \in GroupReqs(s) : Delivered(s.reqs[j])

\* Request i of the awaited group settled: Promise.all rejects with the
\* first rejection, and resolves when every promise of the group has.
CmsAfterBatch(s, i) ==
  LET groupDone == GroupDone(s)
      t == [s EXCEPT !.allPosts = Aggregate(s, i, groupDone),
                     !.outOfOrder = @ \/ (\E j \in GroupReqs(s) :
                                            j < i /\ ~Delivered(s.reqs[j]))]
  IN IF BatchRejects(s.reqs[i])
     THEN Fail(s, "fetch", CauseOf(s.reqs[i]))
     ELSE IF groupDone
          THEN CmsGroupLoop([t EXCEPT !.groupStart = @ + parallelRequests])
          ELSE t

---------------------------------------------------------------------------
(* mediaLoader: the first page and the later pages *)

\* The first page settled.  A transport failure is logged by the inner
\* catch and thrown again as a new error, which the outer catch logs.
MediaAfterFirst(s) ==
  LET r == s.reqs[1] IN
  IF r.st = "thrown"
  THEN Fail([s EXCEPT !.logged = Append(@, [lvl |-> "fetch", item |-> 0,
                                            cause |-> r.error.kind,
                                            names |-> "none"])],
            "fetch", r.error.kind)
  ELSE IF ~Ok(r.status) \/ r.body = "failed"
       THEN Fail(s, "fetch", CauseOf(r))
       ELSE NextItem([s EXCEPT !.photos = r.posts, !.total = r.total,
                               !.idx = 1, !.offset = 0])

\* The total the page loop compares offset with, after a later page: still
\* data.total of the first page, nextData.total is not read.
\* (PageTotalReread: the loop follows the total of the latest page.)
PageTotalReread(s, r) == r.total
PageTotal(s, r) == s.total

\* A later page settled: if (nextResponse.ok) { items } offset += batchSize
MediaAfterPage(s) ==
  LET r == s.reqs[Len(s.reqs)] IN
  IF r.st = "thrown" \/ r.body = "failed"
  THEN Fail(s, "fetch", CauseOf(r))
  ELSE IF ~Ok(r.status)
       THEN MediaPageLoop([s EXCEPT !.offset = @ + s.batchSize])
       ELSE NextItem([s EXCEPT !.photos = r.posts, !.idx = 1,
                               !.total = PageTotal(s, r)])

---------------------------------------------------------------------------
(* What load does when the request it awaits has settled *)

\* Whoever awaits request i calls response.json() on a 2xx response: load
\* itself for the probe and for the pages of mediaLoader, the .then
\* callback of the batch for a batch of cmsLoader (whether or not load
\* still awaits the group).
ReadsBody(s, i) ==
  \/ s.loader = "cms" /\ (i > 1 \/ s.pc = "probe")
  \/ s.loader = "media" /\ s.pc \in {"first", "page"} /\ i = Len(s.reqs)

\* load awaits what request i delivers.
Awaits(s, i) ==
  \/ s.pc \in {"probe", "first"} /\ i = 1
  \/ s.pc = "group" /\ i \in GroupReqs(s)
  \/ s.pc = "page" /\ i = Len(s.reqs)

Resume(s, i) ==
  IF ~Settled(s.reqs[i]) THEN s
  ELSE IF /\ s.reqs[i].st = "returned" /\ Ok(s.reqs[i].status)
          /\ s.reqs[i].body = "none" /\ ReadsBody(s, i)
       THEN [s EXCEPT !.reqs[i].body = "reading"]
  ELSE IF ~Delivered(s.reqs[i]) \/ ~Awaits(s, i) THEN s
  ELSE IF s.pc = "probe" THEN CmsAfterProbe(s)
  ELSE IF s.pc = "group" THEN CmsAfterBatch(s, i)
  ELSE IF s.pc = "first" THEN MediaAfterFirst(s)
  ELSE IF s.pc = "page" THEN MediaAfterPage(s)
  ELSE s

---------------------------------------------------------------------------
(* Initial states *)

\* No cycle is over yet.
NoCycle == [store |-> EmptyStore, bad |-> {}, ended |-> "no"]

\* Nothing is left of an earlier cycle.
NoRequests == [i \in {} |-> 0]

\* CMS_API_URL ? ... : ...
\* (UrlSetIfDefined: the test CMS_API_URL !== undefined.)
UrlSetIfDefined(u) == ~Nullish(u)
UrlSet(u) == TruthyStr(u)

\* The content config: the loaders of blog and photos.
Collections(u) ==
  [blog |-> IF UrlSet(u) THEN [kind |-> "cms", apiBaseUrl |-> u[1]]
            ELSE [kind |-> "glob", apiBaseUrl |-> ""],
   photos |-> IF UrlSet(u) THEN [kind |-> "media", apiBaseUrl |-> u[1]]
              ELSE [kind |-> "file", apiBaseUrl |-> ""]]

NoCollections ==
  [blog |-> [kind |-> "none", apiBaseUrl |-> ""],
   photos |-> [kind |-> "none", apiBaseUrl |-> ""]]

\* The values of the environment variable.
EnvValues ==
  {Undefined, Some(""), Some("https://cms.a"), Some("https://cms.b")}

---------------------------------------------------------------------------
(* The photos route: processPhotos and GET *)

\* What the loop body does for one photo, by the path the photo makes the
\* code follow: the calls it awaits, the items it pushes and, where an
\* error leaves the loop, the throw, in order.  A rejected await inside a
\* try block goes on in its catch.
\*  remote (id starts with http):
\*   "cached"     cache file read (83-93), or dev mode (100-109)
\*   "unfetched"  fetch rejects (114, 156-166) or returns no image
\*                (121-130): default item
\*   "fresh"      fetched, placeholder generated, item pushed (141) and
\*                cache file written; or generatePlaceholder (132) rejects
\*                and the catch pushes the default item (162)
\*   "unwritten"  item pushed (141), writeFileSync (152) throws inside
\*                the try and the catch pushes the default item (162)
\*  local:
\*   "invalid"    no file matches the id (176-179)
\*   "broken"     the import (183) rejects; or the cache file is missing
\*                and readFileSync of the image (208) throws
\*   "thumbed"    cache file read, thumbnail made (187-202)
\*   "unread"     cache file read, getThumbnail (189) rejects and is
\*                caught (203), readFileSync of the image (208) throws
\*   "unplaced"   no cache file, generatePlaceholder (215) rejects
\*   "unthumbed"  no cache file, getThumbnail (224) rejects
\*   "local"      no cache file, item pushed (230), cache file written
\*   "unsaved"    no cache file, item pushed (230), writeFileSync (241)
\*                throws
\*   "retried..."  cache file read, getThumbnail (189) rejects and is
\*                caught (203), then as the four before
PhotoKinds ==
  {"cached", "unfetched", "fresh", "unwritten",
   "invalid", "broken", "thumbed", "unread", "unplaced", "unthumbed",
   "local", "unsaved", "retriedUnplaced", "retriedUnthumbed", "retried",
   "retriedUnsaved"}

\* The steps of the loop body for a photo: an awaited call, "push"
\* (data.push of the photo's item) or "throw".
Path(kind) ==
  CASE kind = "cached" -> << "push" >>
    [] kind = "unfetched" -> << "fetchRemoteImageWithSharp", "push" >>
    [] kind = "fresh" ->
         << "fetchRemoteImageWithSharp", "generatePlaceholder", "push" >>
    [] kind = "unwritten" ->
         << "fetchRemoteImageWithSharp", "generatePlaceholder", "push",
            "push" >>
    [] kind = "invalid" -> << >>
    [] kind = "broken" -> << "import", "throw" >>
    [] kind = "thumbed" -> << "import", "getThumbnail", "push" >>
    [] kind = "unread" -> << "import", "getThumbnail", "throw" >>
    [] kind = "unplaced" -> << "import", "generatePlaceholder", "throw" >>
    [] kind = "unthumbed" ->
         << "import", "generatePlaceholder", "getThumbnail", "throw" >>
    [] kind = "local" ->
         << "import", "generatePlaceholder", "getThumbnail", "push" >>
    [] kind = "unsaved" ->
         << "import", "generatePlaceholder", "getThumbnail", "push",
            "throw" >>
    [] kind = "retriedUnplaced" ->
         << "import", "getThumbnail", "generatePlaceholder", "throw" >>
    [] kind = "retriedUnthumbed" ->
         << "import", "getThumbnail", "generatePlaceholder", "getThumbnail",
            "throw" >>
    [] kind = "retried" ->
         << "import", "getThumbnail", "generatePlaceholder", "getThumbnail",
            "push" >>
    [] kind = "retriedUnsaved" ->
         << "import", "getThumbnail", "generatePlaceholder", "getThumbnail",
            "push", "throw" >>

\* The lists of at most n photos.
PhotoLists(n) == UNION {[1..k -> PhotoKinds] : k \in 0..n}

\* The body has not run: runs counts its starts, at is the photo whose
\* await it is suspended on (0: none), step is the place of that await in
\* the photo's path, data is its local list.
NoBody == [runs |-> 0, at |-> 0, step |-> 0, data |-> << >>]

\* A request that has not called processPhotos yet.
NoCall == [st |-> "idle", via |-> "none", during |-> "none", got |-> Null]

\* What a caller observes: the list, or the error the body threw.
Fulfilled(list) == [ok |-> TRUE, list |-> list]
Rejected == [ok |-> FALSE, list |-> << >>]

\* The state of a promise variable: "none" while it is null.
PromiseState(p) == IF p = Null THEN "none" ELSE p[1].st

\* The module of the route has not been loaded.
RouteNotLoaded ==
  /\ photosMeta = << >> /\ _data = Null /\ _dataPromise = Null
  /\ body = NoBody /\ callers = << >>

\* if (_data !== null) return _data
HasData(d) == d # Null

\* if (_dataPromise !== null) return _dataPromise
\* (InProgressIgnored: the check left out.)
InProgressIgnored(p) == FALSE
InProgress(p) == p # Null

\* for (const photo of photos): the body runs on from step j of photo i
\* without suspending, until an await, a throw or the end of the list.
RECURSIVE RunBody(_, _, _, _)
RunBody(meta, i, j, data) ==
  IF i > Len(meta)
  THEN [at |-> 0, step |-> 0, data |-> data, end |-> "returned"]
  ELSE IF j > Len(Path(meta[i])) THEN RunBody(meta, i + 1, 1, data)
  ELSE IF Path(meta[i])[j] = "push"
       THEN RunBody(meta, i, j + 1, Append(data, i))
  ELSE IF Path(meta[i])[j] = "throw"
       THEN [at |-> 0, step |-> 0, data |-> data, end |-> "thrown"]
       ELSE [at |-> i, step |-> j, data |-> data, end |-> "suspended"]

\* The body ran to r: it is suspended on an await, or it has set _data and
\* its promise is fulfilled with the list, or it threw and its promise is
\* rejected.  (When the body ends before its first await, _data is set
\* before _dataPromise is assigned.)
BodyRanTo(r, runs) ==
  /\ body' = [runs |-> runs, at |-> r.at, step |-> r.step, data |-> r.data]
  /\ _data' = IF r.end = "returned" THEN Some(r.data) ELSE _data
  /\ _dataPromise' =
       Some([st |-> CASE r.end = "returned" -> "fulfilled"
                      [] r.end = "thrown" -> "rejected"
                      [] OTHER -> "pending",
             value |-> IF r.end = "returned" THEN r.data ELSE << >>])

\* GET calls processPhotos and awaits what it returns; the requests are
\* numbered in the order of their calls.
Get(c) ==
  /\ pc = "route" /\ callers[c].st = "idle"
  /\ \A d \in 1..(c - 1) : callers[d].st # "idle"
  /\ LET call == [NoCall EXCEPT !.st = "awaiting",
                                !.during = PromiseState(_dataPromise)]
     IN IF HasData(_data)
        THEN /\ callers' = [callers EXCEPT ![c] =
                              [call EXCEPT !.via = "cache",
                                           !.got = Some(Fulfilled(_data[1]))]]
             /\ UNCHANGED << _data, _dataPromise, body >>
        ELSE IF InProgress(_dataPromise)
        THEN /\ callers' = [callers EXCEPT ![c] =
                              [call EXCEPT !.via = "promise"]]
             /\ UNCHANGED << _data, _dataPromise, body >>
        ELSE /\ callers' = [callers EXCEPT ![c] =
                              [call EXCEPT !.via = "start"]]
             /\ BodyRanTo(RunBody(photosMeta, 1, 1, << >>), body.runs + 1)
  /\ UNCHANGED << photosMeta, loaderVars >>

\* The call the body awaits for photo body.at settles (a rejection inside
\* a try block included): the body goes on from the step after it.
BodyResumes ==
  /\ pc = "route" /\ body.at > 0
  /\ PromiseState(_dataPromise) = "pending"
  /\ BodyRanTo(RunBody(photosMeta, body.at, body.step + 1, body.data),
               body.runs)
  /\ UNCHANGED << callers, photosMeta, loaderVars >>

\* const data = await processPhotos() of one GET resumes.
CallerResumes(c) ==
  /\ pc = "route" /\ callers[c].st = "awaiting"
  /\ \/ callers[c].via = "cache"
     \/ PromiseState(_dataPromise) \in {"fulfilled", "rejected"}
  /\ callers' = [callers EXCEPT
       ![c].st = "done",
       ![c].got = IF callers[c].via = "cache" THEN @
                  ELSE IF _dataPromise[1].st = "fulfilled"
                       THEN Some(Fulfilled(_dataPromise[1].value))
                       ELSE Some(Rejected)]
  /\ UNCHANGED << photosMeta, _data, _dataPromise, body, loaderVars >>

---------------------------------------------------------------------------

\* The config was evaluated with CMS_API_URL set.
Configured ==
  /\ cmsApiUrl = Some("https://cms.a")
  /\ collections = Collections(cmsApiUrl)

Fresh ==
  /\ Configured
  /\ total = 0 /\ totalBatches = 0 /\ groupStart = 0
  /\ allPosts = << >> /\ photos = << >> /\ offset = 0
  /\ idx = 0 /\ step = "none" /\ totalFetched = 0
  /\ logged = << >> /\ caught = << >> /\ setCalls = << >> /\ faults = 0
  /\ outOfOrder = FALSE /\ failure = "none" /\ clears = 0
  /\ cycle = 1 /\ first = NoCycle /\ old = NoRequests

\* What an earlier cycle may have left in the store (entry 0).
PriorStores == {EmptyStore, [id \in {NumIds} |-> 0]}

\* A loader has been constructed; load has not been called yet.
Init ==
  /\ loader \in {"cms", "media"}
  /\ batchSize \in 1..MaxBatchSize
  /\ remote \in 0..MaxTotal
  /\ store \in PriorStores
  /\ pc = "start"
  /\ reqs = << >>
  /\ post = NoPost /\ entry = NoEntry
  /\ Fresh /\ RouteNotLoaded

\* The same, over the smaller datasets of the specifications that let the
\* dataset change or load run twice.
InitUpTo(n) ==
  /\ loader \in {"cms", "media"}
  /\ batchSize \in 1..MaxBatchSize
  /\ remote \in 0..n
  /\ store \in PriorStores
  /\ pc = "start"
  /\ reqs = << >>
  /\ post = NoPost /\ entry = NoEntry
  /\ Fresh /\ RouteNotLoaded

\* The content config has not been evaluated yet; CMS_API_URL has any
\* value.
InitConfig ==
  /\ loader = "none"
  /\ batchSize \in 1..MaxBatchSize
  /\ remote \in 0..MaxTotalConfig
  /\ store = EmptyStore
  /\ pc = "config"
  /\ reqs = << >>
  /\ post = NoPost /\ entry = NoEntry
  /\ cmsApiUrl \in EnvValues /\ collections = NoCollections
  /\ RouteNotLoaded
  /\ total = 0 /\ totalBatches = 0 /\ groupStart = 0
  /\ allPosts = << >> /\ photos = << >> /\ offset = 0
  /\ idx = 0 /\ step = "none" /\ totalFetched = 0
  /\ logged = << >> /\ caught = << >> /\ setCalls = << >> /\ faults = 0
  /\ outOfOrder = FALSE /\ failure = "none" /\ clears = 0
  /\ cycle = 1 /\ first = NoCycle /\ old = NoRequests

\* fetchWithRetry called on its own, with any maxRetries and retryDelay.
InitFetch ==
  /\ loader = "none"
  /\ batchSize = 1
  /\ remote \in 0..1
  /\ store = EmptyStore
  /\ pc = "standalone"
  /\ \E m \in 0..MaxRetriesArg, d \in RetryDelays :
       reqs = << FetchWithRetry(1, 0, m, d) >>
  /\ post = NoPost /\ entry = NoEntry
  /\ Fresh /\ RouteNotLoaded

\* The join rows of postTags: [{tag: {name}}, ...]
TagRows(n) == UNION {[1..k -> {[tag |-> [name |-> x]] : x \in TagNames}] :
                       k \in 0..n}

\* The posts transformPostToEntry is called on: any slug, category path
\* and tags ...
Posts ==
  {[TypicalPost EXCEPT !.slug = s, !.categoryPath = c, !.postTags = g] :
     s \in {Undefined, Null} \cup {Some(x) : x \in Strings(MaxSlugLen)},
     c \in {Undefined, Null} \cup {Some(x) : x \in Strings(MaxPathLen)},
     g \in {Undefined, Null} \cup {Some(x) : x \in TagRows(MaxTags)}}

\* ... and any values of the fields the data literal is built from, up to
\* MaxMissing of the copied fields and pubDate being null in the remote
\* record or missing from it (subtitle, excerpt and platform are missing,
\* null, empty or set together).
OptStr(x) == {Undefined, Null, Some(""), Some(x)}

Missing ==
  UNION {[x -> {Undefined, Null}] :
           x \in {y \in SUBSET (PassThrough \cup {"pubDate"}) :
                    Cardinality(y) <= MaxMissing}}

DataPosts ==
  {[key \in DOMAIN TypicalPost |->
      CASE key \in DOMAIN m -> m[key]
        [] key = "subtitle" -> IF f[1] = Some("x") THEN Some("s") ELSE f[1]
        [] key = "excerpt" -> IF f[1] = Some("x") THEN Some("e") ELSE f[1]
        [] key = "platform" -> IF f[1] = Some("x") THEN Some("p") ELSE f[1]
        [] key = "ogImage" -> f[2]
        [] key = "categoryNamePath" -> f[3]
        [] key = "lastModDate" -> d
        [] key = "minutesRead" -> r
        [] key = "category" -> c
        [] OTHER -> TypicalPost[key]] :
     m \in Missing,
     f \in OptStr("x") \X {Undefined, Null, Some("o")} \X OptStr("N"),
     d \in {Undefined, Null, Some("2024-02-02")},
     r \in {Undefined, Null, Some(0), Some(5)},
     c \in {Null, Some([name |-> Some("n")])}}

\* transformPostToEntry called on its own, on any post.
InitTransform ==
  /\ loader = "none"
  /\ batchSize = 1
  /\ remote = 0
  /\ store = EmptyStore
  /\ pc = "transform"
  /\ reqs = << >>
  /\ (post \in Posts \/ post \in DataPosts) /\ entry = NoEntry
  /\ Fresh /\ RouteNotLoaded

\* The module of the photos route has been loaded with any list of
\* photos; no request has come in.
InitPhotos ==
  /\ loader = "none"
  /\ batchSize = 1
  /\ remote = 0
  /\ store = EmptyStore
  /\ pc = "route"
  /\ reqs = << >>
  /\ post = NoPost /\ entry = NoEntry
  /\ Fresh
  /\ photosMeta \in PhotoLists(MaxPhotos)
  /\ _data = Null /\ _dataPromise = Null /\ body = NoBody
  /\ callers = [c \in 1..MaxCallers |-> NoCall]

---------------------------------------------------------------------------
(* load is called: store.clear(), then the first request *)

CmsLoad ==
  /\ loader = "cms" /\ pc = "start"
  /\ Install([StoreClear(Cur) EXCEPT
                !.pc = "probe",
                !.reqs = << FetchWithRetry(1, 0, DefaultMaxRetries,
                                           DefaultRetryDelay) >>])

MediaLoad ==
  /\ loader = "media" /\ pc = "start"
  /\ Install([StoreClear(Cur) EXCEPT
                !.pc = "first",
                !.reqs = << FetchWithRetry(batchSize, 0, DefaultMaxRetries,
                                           DefaultRetryDelay) >>])

---------------------------------------------------------------------------
(* The events of one fetchWithRetry call *)

\* Failures (of the transport, of an item) are injected up to a budget,
\* which a second call of load shares with the first.
MayFail == loader = "none" \/ faults < MaxFaults

\* fetch resolves with a response.
FetchResponds(i, status) ==
  /\ reqs[i].st = "inflight"
  /\ ~Ok(status) => MayFail
  /\ Install(Resume([Cur EXCEPT
                       !.reqs[i] = OnResponse(reqs[i], status, remote),
                       !.faults = IF Ok(status) THEN @ ELSE @ + 1], i))

\* fetch rejects: the connection failed.
FetchRejects(i) ==
  /\ reqs[i].st = "inflight"
  /\ MayFail
  /\ Install(Resume([Cur EXCEPT !.reqs[i] = OnError(reqs[i], "network"),
                                !.faults = @ + 1], i))

\* The timer of the attempt in flight fires: controller.abort() makes fetch
\* reject.
TimeoutAborts(i) ==
  /\ reqs[i].st = "inflight"
  /\ reqs[i].attempt \in reqs[i].timers
  /\ MayFail
  /\ Install(Resume([Cur EXCEPT !.reqs[i] = OnError(reqs[i], "timeout"),
                                !.faults = @ + 1], i))

\* The body of the response of request i has been read and parsed.
BodyArrives(i) ==
  /\ reqs[i].body = "reading"
  /\ Install(Resume([Cur EXCEPT !.reqs[i].body = "read"], i))

\* response.json() of request i rejects.
BodyFails(i) ==
  /\ reqs[i].body = "reading"
  /\ MayFail
  /\ Install(Resume([Cur EXCEPT !.reqs[i].body = "failed",
                                !.faults = @ + 1], i))

\* The rest of the body of request i never comes.
BodyStalls(i) ==
  /\ reqs[i].body = "reading"
  /\ MayFail
  /\ Install([Cur EXCEPT !.reqs[i].body = "stalled", !.faults = @ + 1])

\* The timer of an attempt that is over fires: abort() of a controller
\* whose fetch has settled does nothing.
\* (StaleTimerAborts: one controller per call, shared by its attempts, so
\* the timer of an earlier attempt aborts the attempt in flight.)
StaleTimerAborts(i, a) ==
  /\ a \in reqs[i].timers
  /\ ~(reqs[i].st = "inflight" /\ reqs[i].attempt = a)
  /\ IF reqs[i].st = "inflight"
     THEN Install(Resume([Cur EXCEPT
            !.reqs[i] = OnError([reqs[i] EXCEPT !.timers = @ \ {a}],
                                "timeout")], i))
     ELSE Install([Cur EXCEPT !.reqs[i].timers = @ \ {a}])
StaleTimerFires(i, a) ==
  /\ a \in reqs[i].timers
  /\ ~(reqs[i].st = "inflight" /\ reqs[i].attempt = a)
  /\ reqs' = [reqs EXCEPT ![i].timers = @ \ {a}]
  /\ UNCHANGED << loader, batchSize, remote, pc, store, total, totalBatches,
                  groupStart, allPosts, photos, offset, idx, step,
                  totalFetched, logged, caught, setCalls, faults,
                  outOfOrder, failure, clears, cycle, first, old, post, entry, cmsApiUrl,
                  collections, routeVars >>

\* The backoff wait is over.
WaitElapses(i) ==
  /\ reqs[i].st = "waiting"
  /\ Install(Resume([Cur EXCEPT !.reqs[i] = AfterWait(reqs[i])], i))

---------------------------------------------------------------------------
(* The steps of one item *)

\* transformPostToEntry(post) / the entry literal of mediaLoader, up to the
\* call of parseData.  A malformed item makes it throw ("throws": a tag
\* without name, a media item without name); so does a post without slug
\* ("nameless": post.slug.includes, and the message of the catch names
\* "undefined"; for mediaLoader an item with neither name nor id); for an
\* item that is null the catch throws again on post.slug / item.id.
TransformItem(outcome) ==
  /\ pc = "process" /\ step = "transform"
  /\ outcome # "ok" => MayFail
  /\ LET s == [Cur EXCEPT !.faults = IF outcome = "ok" THEN @ ELSE @ + 1]
     IN Install(CASE outcome = "ok" -> [s EXCEPT !.step = "parse"]
                  [] outcome = "throws" -> ItemFails(s, TRUE)
                  [] outcome = "nameless" -> ItemFails(s, FALSE)
                  [] outcome = "null" -> Fail(s, "item", "null item"))

\* await parseData(...) settles.  A post that got here has a slug; an item
\* of mediaLoader may have no id ("nameless").
ParseDataSettles(outcome) ==
  /\ pc = "process" /\ step = "parse"
  /\ outcome # "ok" => MayFail
  /\ outcome = "nameless" => loader = "media"
  /\ Install(IF outcome # "ok"
             THEN ItemFails([Cur EXCEPT !.faults = @ + 1],
                            outcome # "nameless")
             ELSE IF loader = "cms" THEN [Cur EXCEPT !.step = "render"]
             ELSE ItemCommitted(Cur))

\* await renderMarkdown(entry.body) settles.
RenderMarkdownSettles(ok) ==
  /\ pc = "process" /\ step = "render"
  /\ ~ok => MayFail
  /\ Install(IF ok THEN ItemCommitted(Cur)
             ELSE ItemFails([Cur EXCEPT !.faults = @ + 1], TRUE))

---------------------------------------------------------------------------
(* The environment of a cycle *)

\* The remote dataset grows or shrinks by one item while later requests of
\* the cycle are outstanding, once per cycle.
RemoteChanges ==
  /\ loader \in {"cms", "media"}
  /\ pc \in {"group", "page"}
  /\ remote = reqs[1].total
  /\ \E n \in {remote - 1, remote + 1} :
       /\ n >= 0
       /\ Install([Cur EXCEPT !.remote = n])

\* The event loop still has work for the request: its fetch or its
\* backoff wait is pending, a timer it armed has not fired, or its body
\* is being read.
HasWork(r) == ~Settled(r) \/ r.timers # {} \/ r.body = "reading"

\* What is left of a request nothing awaits any more: the state of its
\* retry loop, its timers and the read of its body.  What it returns or
\* throws reaches nobody, and the counters of its attempts are read by no
\* one.
Forget(r) ==
  [r EXCEPT !.posts = << >>, !.total = 0, !.status = 0, !.error = NoError,
            !.lastError = NoError, !.calls = 0, !.fails = 0, !.waited = 0]

\* The requests among rs that are not over, under their numbers.
Leftover(rs) ==
  [i \in {j \in DOMAIN rs : HasWork(rs[j])} |-> Forget(rs[i])]

\* load is called again after it returned or threw: the store is as the
\* first cycle left it, the locals of load are new.  Nothing cancels what
\* the first call left running: the timers fetchWithRetry did not clear
\* and, after a batch failed, the other requests of its group.
Reload ==
  /\ loader \in {"cms", "media"}
  /\ pc \in {"done", "failed"} /\ cycle = 1
  /\ Install([Cur EXCEPT
       !.pc = "start", !.cycle = 2,
       !.first = [store |-> store,
                  bad |-> {caught[n] : n \in 1..Len(caught)},
                  ended |-> pc],
       !.old = Leftover(reqs),
       !.reqs = << >>, !.total = 0, !.totalBatches = 0, !.groupStart = 0,
       !.allPosts = << >>, !.photos = << >>, !.offset = 0, !.idx = 0,
       !.step = "none", !.totalFetched = 0, !.logged = << >>,
       !.caught = << >>, !.setCalls = << >>, !.outOfOrder = FALSE, !.failure = "none",
       !.clears = 0])

\* Request i of the first cycle goes on to r while the second cycle runs.
\* Nothing awaits it any more but the .then callback of a batch of
\* cmsLoader, which reads the body of a 2xx response.
Continues(i, r, fault) ==
  LET c == IF /\ r.st = "returned" /\ Ok(r.status) /\ r.body = "none"
              /\ loader = "cms" /\ i > 1
           THEN [r EXCEPT !.body = "reading"] ELSE r
  IN Install([Cur EXCEPT
       !.old = Leftover([j \in DOMAIN old |-> IF j = i THEN c ELSE old[j]]),
       !.faults = @ + fault])

\* The events of the requests the first cycle left running: those of
\* FetchResponds, FetchRejects, TimeoutAborts, WaitElapses, BodyArrives,
\* BodyFails, BodyStalls and StaleTimerFires.
OldFetchResponds(i, status) ==
  /\ old[i].st = "inflight"
  /\ ~Ok(status) => MayFail
  /\ Continues(i, OnResponse(old[i], status, remote),
               IF Ok(status) THEN 0 ELSE 1)

OldFetchRejects(i) ==
  /\ old[i].st = "inflight"
  /\ MayFail
  /\ Continues(i, OnError(old[i], "network"), 1)

OldTimeoutAborts(i) ==
  /\ old[i].st = "inflight"
  /\ old[i].attempt \in old[i].timers
  /\ MayFail
  /\ Continues(i, OnError(old[i], "timeout"), 1)

OldWaitElapses(i) ==
  /\ old[i].st = "waiting"
  /\ Continues(i, AfterWait(old[i]), 0)

OldBodyArrives(i) ==
  /\ old[i].body = "reading"
  /\ Continues(i, [old[i] EXCEPT !.body = "read"], 0)

OldBodyFails(i) ==
  /\ old[i].body = "reading"
  /\ MayFail
  /\ Continues(i, [old[i] EXCEPT !.body = "failed"], 1)

OldBodyStalls(i) ==
  /\ old[i].body = "reading"
  /\ MayFail
  /\ Continues(i, [old[i] EXCEPT !.body = "stalled"], 1)

OldTimerFires(i, a) ==
  /\ a \in old[i].timers
  /\ ~(old[i].st = "inflight" /\ old[i].attempt = a)
  /\ Continues(i, [old[i] EXCEPT !.timers = @ \ {a}], 0)

OldRequestEvent ==
  \E i \in DOMAIN old :
    \/ \E status \in Statuses : OldFetchResponds(i, status)
    \/ OldFetchRejects(i)
    \/ OldTimeoutAborts(i)
    \/ OldWaitElapses(i)
    \/ OldBodyArrives(i) \/ OldBodyFails(i) \/ OldBodyStalls(i)
    \/ \E a \in 1..MaxRetriesArg + 1 : OldTimerFires(i, a)

---------------------------------------------------------------------------
(* The content config and the sync of a collection *)

\* The module of the config is evaluated: defineCollection({loader: ...})
DefineCollections ==
  /\ pc = "config"
  /\ Install([Cur EXCEPT !.pc = "defined",
                         !.collections = Collections(cmsApiUrl)])

\* One of the two collections is synced: its loader is the one that runs.
\* The local loaders (glob, file) read files and issue no request.
SyncCollection(c) ==
  /\ pc = "defined"
  /\ Install([Cur EXCEPT
       !.loader = collections[c].kind,
       !.pc = IF collections[c].kind \in {"cms", "media"} THEN "start"
              ELSE "done"])

---------------------------------------------------------------------------
(* transformPostToEntry called on its own *)

Transform ==
  /\ pc = "transform"
  /\ Install([Cur EXCEPT !.pc = "transformed",
                         !.entry = TransformPostToEntry(post)])

---------------------------------------------------------------------------

RequestEvent ==
  \E i \in DOMAIN reqs :
    \/ \E status \in Statuses : FetchResponds(i, status)
    \/ FetchRejects(i)
    \/ TimeoutAborts(i)
    \/ \E a \in 1..MaxRetriesArg + 1 : StaleTimerFires(i, a)
    \/ WaitElapses(i)

BodyEvent ==
  \E i \in DOMAIN reqs : BodyArrives(i) \/ BodyFails(i) \/ BodyStalls(i)

ItemEvent ==
  \/ \E outcome \in {"ok", "throws", "nameless", "null"} :
       TransformItem(outcome)
  \/ \E outcome \in {"ok", "fails", "nameless"} : ParseDataSettles(outcome)
  \/ \E ok \in BOOLEAN : RenderMarkdownSettles(ok)

Next == CmsLoad \/ MediaLoad \/ RequestEvent \/ BodyEvent \/ ItemEvent

Spec == Init /\ [][Next]_vars

NextFetch == RequestEvent

SpecFetch == InitFetch /\ [][NextFetch]_vars

\* A cycle during which the remote dataset changes.
NextDrift == Next \/ RemoteChanges

SpecDrift == InitUpTo(MaxTotalDrift) /\ [][NextDrift]_vars

\* Two cycles in sequence against an unchanged dataset.
NextTwice == Next \/ Reload \/ OldRequestEvent

SpecTwice == InitUpTo(MaxTotalTwice) /\ [][NextTwice]_vars

\* The config, then the cycle of one collection.
NextConfig ==
  \/ DefineCollections
  \/ \E c \in {"blog", "photos"} : SyncCollection(c)
  \/ Next

SpecConfig == InitConfig /\ [][NextConfig]_vars

\* The event loop has something to run: load has not been called yet, an
\* item is being processed, a request is unsettled or a timer is armed.
\* This is the state predicate ENABLED <<Next>>_vars.
EventPending ==
  \/ pc \in {"start", "process"}
  \/ \E i \in DOMAIN reqs : HasWork(reqs[i])
  \/ DOMAIN old # {}

\* A cycle in which every pending event of the event loop eventually
\* runs: every attempt in flight responds, fails or times out, every wait
\* elapses, every step of an item settles.  The second conjunct is weak
\* fairness of the call of load; the third is WF_vars(Next) with its
\* ENABLED written as EventPending.
SpecLive ==
  /\ InitUpTo(MaxTotalLive) /\ [][Next]_vars
  /\ WF_vars(CmsLoad \/ MediaLoad)
  /\ ([]<>(~EventPending) \/ []<><<Next>>_vars)

\* Requests to the photos route, in any interleaving.
NextPhotos ==
  \/ \E c \in DOMAIN callers : Get(c)
  \/ BodyResumes
  \/ \E c \in DOMAIN callers : CallerResumes(c)

SpecPhotos == InitPhotos /\ [][NextPhotos]_vars

SpecTransform == InitTransform /\ [][Transform]_vars

---------------------------------------------------------------------------
(* Properties *)

\* retryDelay * 1 + retryDelay * 2 + ... + retryDelay * k
RECURSIVE SumWaits(_, _)
SumWaits(d, k) == IF k <= 0 THEN 0 ELSE d * k + SumWaits(d, k - 1)

\* A batch request that failed: retries exhausted, or a non-2xx response.
BatchFailed(r) ==
  r.st = "thrown" \/ (r.st = "returned" /\ ~(r.status \in 200..299))

\* The batch requests of the cycle, in the order they were issued.
Batches == 2..Len(reqs)

\* The results of the batch requests 2..k, lowest batch index first.
RECURSIVE Flatten(_)
Flatten(k) == IF k < 2 THEN << >> ELSE Flatten(k - 1) \o reqs[k].posts

\* Every fetch of a cmsLoader cycle has succeeded.
CmsFetched == loader = "cms" /\ (pc \in {"process", "done"} \/ failure = "item")

\* C1: in cmsLoader.load, once any batch request has failed (retries
\* exhausted or non-2xx response) load has thrown and no store.set was
\* called in the cycle: the store is as store.clear() left it, whatever the
\* other batches returned.
C1_FailedBatchAbortsLoad ==
  (loader = "cms" /\ \E i \in Batches : BatchFailed(reqs[i]))
    => (pc = "failed" /\ failure = "fetch" /\ setCalls = << >>
        /\ totalFetched = 0 /\ store = EmptyStore)

\* C1 witness: a batch failed while another batch of the cycle had
\* returned items.
C1_Witness ==
  /\ loader = "cms"
  /\ \E i, j \in Batches :
       /\ BatchFailed(reqs[i])
       /\ reqs[j].st = "returned" /\ reqs[j].status = 200
       /\ Len(reqs[j].posts) > 0

\* C2: for cmsLoader and mediaLoader, the store is empty from store.clear()
\* until an item is committed, and it is empty after a cycle that failed
\* during fetching (probe, batch, first media page or a later media page).
C2_StoreEmptyAfterFetchFailure ==
  /\ (pc # "start" /\ setCalls = << >>) => store = EmptyStore
  /\ failure = "fetch" => store = EmptyStore

\* C3: once fetching has succeeded, a failing item never makes load throw;
\* load returns with one store.set per item that did not fail and one
\* logged error per item that did.
C3_ItemFailuresNeverAbort ==
  loader = "cms" =>
    /\ failure # "item"
    /\ pc = "done" =>
         /\ Len(setCalls) + Len(logged) = Len(allPosts)
         /\ \A k \in 1..Len(logged) : logged[k].lvl = "item"

\* C4: a call that returns after K transport failures (K < maxRetries) made
\* exactly K + 1 attempts and waited retryDelay * 1 + ... + retryDelay * K
\* between them.
C4_RetryThenSuccess ==
  \A i \in DOMAIN reqs :
    reqs[i].st = "returned" =>
      /\ reqs[i].fails < reqs[i].maxRetries
      /\ reqs[i].calls = reqs[i].fails + 1
      /\ reqs[i].waited = SumWaits(reqs[i].retryDelay, reqs[i].fails)

\* C4 witness: a call that succeeded on its third attempt.
C4_Witness ==
  \E i \in DOMAIN reqs :
    reqs[i].st = "returned" /\ reqs[i].status = 200 /\ reqs[i].fails = 2

\* C5: a request whose first attempt receives a non-2xx response makes
\* exactly one attempt, with no wait and no retry: the response is returned
\* to the caller, and cmsLoader.load throws.
C5_Http500NoRetry ==
  \A i \in DOMAIN reqs :
    (reqs[i].status # 0 /\ ~(reqs[i].status \in 200..299)
       /\ reqs[i].fails = 0) =>
      /\ reqs[i].st = "returned"
      /\ reqs[i].calls = 1
      /\ reqs[i].waited = 0
      /\ loader = "cms" => pc = "failed"

\* C5 witness: a batch request of cmsLoader answered with HTTP 500 on its
\* first attempt.
C5_Witness ==
  /\ loader = "cms"
  /\ \E i \in Batches : reqs[i].status = 500 /\ reqs[i].fails = 0

\* C6: with maxRetries >= 1 a call makes at least 1 and at most maxRetries
\* attempts, and attempt j is in flight only after the attempts 1..j-1
\* have failed and the waits retryDelay * 1 .. retryDelay * (j-1) have
\* elapsed.
C6_AttemptsBounded ==
  \A i \in DOMAIN reqs :
    reqs[i].maxRetries >= 1 =>
      /\ reqs[i].calls >= 1
      /\ reqs[i].calls <= reqs[i].maxRetries
      /\ reqs[i].st = "inflight" =>
           /\ reqs[i].calls = reqs[i].attempt
           /\ reqs[i].fails = reqs[i].attempt - 1
           /\ reqs[i].waited =
                SumWaits(reqs[i].retryDelay, reqs[i].attempt - 1)

\* C6 witness: the third attempt of a call is in flight.
C6_Witness ==
  \E i \in DOMAIN reqs :
    /\ reqs[i].st = "inflight" /\ reqs[i].attempt = 3
    /\ reqs[i].waited = 3 * reqs[i].retryDelay

\* C7: when all maxRetries attempts have failed, the call throws the error
\* of the last attempt, and it has not waited after that attempt.
C7_ThrowsLastError ==
  \A i \in DOMAIN reqs :
    (reqs[i].st = "thrown" /\ reqs[i].maxRetries >= 1) =>
      /\ reqs[i].fails = reqs[i].maxRetries
      /\ reqs[i].error.attempt = reqs[i].maxRetries
      /\ reqs[i].error.kind \in FailureKinds
      /\ reqs[i].waited =
           SumWaits(reqs[i].retryDelay, reqs[i].maxRetries - 1)

\* C7 witness: a call with maxRetries = 3 threw after its third failure.
C7_Witness ==
  \E i \in DOMAIN reqs :
    /\ reqs[i].st = "thrown" /\ reqs[i].maxRetries = 3
    /\ reqs[i].error.attempt = 3

\* C8: an attempt aborted by its timeout timer counts as one failed
\* attempt: before the last attempt it is followed by the backoff wait and
\* the next attempt, and the call throws only when it was the last attempt.
C8_TimeoutIsFailedAttempt ==
  \A i \in DOMAIN reqs :
    LET r == reqs[i]
        e == reqs[i].lastError
    IN e.kind = "timeout" =>
         /\ r.fails = e.attempt
         /\ e.attempt \notin r.timers
         /\ IF e.attempt < r.maxRetries
            THEN \/ r.st = "waiting" /\ r.attempt = e.attempt
                 \/ r.st \in {"inflight", "returned"}
                      /\ r.attempt = e.attempt + 1
                      /\ r.calls = e.attempt + 1
            ELSE r.st = "thrown" /\ r.error = e

\* C8 witness: the first attempt timed out and the retry got a response.
C8_Witness ==
  \E i \in DOMAIN reqs :
    /\ reqs[i].lastError = [kind |-> "timeout", attempt |-> 1]
    /\ reqs[i].st = "returned" /\ reqs[i].calls = 2

\* C9: a cmsLoader cycle issues the probe (limit 1, offset 0) first and no
\* batch before the probe has returned; when all fetches have succeeded it
\* has issued exactly ceil(total / batchSize) batch requests, batch i
\* asking for limit batchSize at offset i * batchSize.
C9_ProbeThenBatchPlan ==
  loader = "cms" =>
    /\ Len(reqs) >= 1 => reqs[1].limit = 1 /\ reqs[1].offset = 0
    /\ Len(reqs) >= 2 => reqs[1].st = "returned"
    /\ CmsFetched =>
         LET n == Len(reqs) - 1 IN
         /\ n * batchSize >= total
         /\ (n - 1) * batchSize < total
         /\ \A b \in 0..(n - 1) :
              /\ reqs[b + 2].limit = batchSize
              /\ reqs[b + 2].offset = b * batchSize

\* C9 witness: 5 posts fetched in 3 batches of 2.
C9_Witness ==
  /\ loader = "cms" /\ pc = "done"
  /\ batchSize = 2 /\ total = 5 /\ Len(reqs) = 4

\* C10: the aggregated list of cmsLoader is the concatenation of the batch
\* results in ascending batch-index order, whatever order the requests of
\* a group completed in and however many retries each needed.
C10_AggregateInBatchOrder ==
  /\ CmsFetched => allPosts = Flatten(Len(reqs))
  /\ (loader = "cms" /\ pc = "group") => allPosts = Flatten(groupStart + 1)

\* C10 witness: two groups were fetched, a request completed before one
\* of a lower batch index, and one needed a retry.
C10_Witness ==
  /\ loader = "cms" /\ pc = "done" /\ outOfOrder
  /\ Len(reqs) >= 6 /\ Len(allPosts) >= 5
  /\ \E i \in Batches : reqs[i].fails >= 1

\* The batch requests that are outstanding: issued and not settled.
Outstanding == {i \in Batches : ~Settled(reqs[i])}

\* The group of 4 consecutive batch indices request i belongs to.
GroupOf(i) == (i - 2) \div 4

\* C11: in every state of a cmsLoader cycle the batch requests in flight
\* belong to one group of at most 4 consecutive batch indices, at most 4
\* are outstanding, and a request of a later group has been issued only
\* when every request of the groups before it has completed.
C11_OneGroupInFlight ==
  loader = "cms" =>
    /\ Cardinality(Outstanding) <= 4
    /\ \A i, j \in Outstanding : GroupOf(i) = GroupOf(j)
    /\ \A i, j \in Batches :
         GroupOf(i) < GroupOf(j) =>
           /\ Settled(reqs[i]) /\ ~BatchFailed(reqs[i])
           /\ reqs[i].body = "read"

\* The four requests of the first group have completed and a request of
\* the second group is outstanding.
C11_Witness ==
  /\ loader = "cms"
  /\ \E i \in Outstanding : GroupOf(i) = 1
  /\ Cardinality({i \in Batches : GroupOf(i) = 0}) = 4

\* The items this cycle has committed.
Committed == {setCalls[n] : n \in 1..Len(setCalls)}

\* C12: a load cycle of cmsLoader and of mediaLoader calls store.clear
\* exactly once, before any HTTP request and before any store.set; once the
\* cycle has started, every entry of the store is one this cycle committed
\* (entry 0 is what an earlier cycle left).
C12_ClearedOnceFirst ==
  loader \in {"cms", "media"} =>
    /\ pc = "start" => clears = 0 /\ reqs = << >> /\ setCalls = << >>
    /\ pc # "start" =>
         /\ clears = 1
         /\ \A id \in DOMAIN store : store[id] # 0 /\ store[id] \in Committed

\* The cycle has committed again the identifier an earlier cycle may have
\* left an entry for.
C12_Witness ==
  /\ pc = "done" /\ clears = 1
  /\ NumIds \in DOMAIN store /\ store[NumIds] # 0

\* C13: the phases of a cmsLoader cycle follow START, CLEARED, FETCHING,
\* PROCESSING, DONE, and load fails only while fetching: no item is
\* transformed or committed before every batch has been fetched, no fetch
\* is outstanding or issued once processing has begun, and a cycle that
\* has begun processing does not fail.
C13_PhasesInOrder ==
  loader = "cms" =>
    /\ pc = "failed" => failure = "fetch"
    /\ (pc = "process" \/ setCalls # << >>
           \/ \E n \in 1..Len(logged) : logged[n].lvl = "item") =>
         /\ Len(reqs) = totalBatches + 1
         /\ Outstanding = {}
         /\ \A i \in DOMAIN reqs :
              /\ reqs[i].st = "returned" /\ Ok(reqs[i].status)
              /\ reqs[i].body = "read"
         /\ pc \in {"process", "done"}

\* C14: a non-2xx response to any request of a load cycle (the posts probe,
\* a posts batch, the first media page, a later media page) makes load
\* throw, and no page is requested after it.
C14_Non2xxIsFatal ==
  loader \in {"cms", "media"} =>
    \A i \in DOMAIN reqs :
      (reqs[i].st = "returned" /\ ~Ok(reqs[i].status)) =>
        /\ pc = "failed" /\ failure = "fetch"
        /\ loader = "media" => i = Len(reqs)

\* The items of the dataset, in fetch order, that were processed
\* successfully and map to identifier id.
CommittedAs(id) == {k \in Committed : IdOf(k) = id}

\* C15: after a load cycle that returns normally the store holds, for every
\* identifier, the entry built from the last item in fetch order that maps
\* to it and was processed successfully, and holds no entry for an
\* identifier no such item maps to.
C15_LastWriteWins ==
  (loader \in {"cms", "media"} /\ pc = "done") =>
    \A id \in 1..NumIds :
      IF CommittedAs(id) = {}
      THEN id \notin DOMAIN store
      ELSE /\ id \in DOMAIN store
           /\ store[id] \in CommittedAs(id)
           /\ \A k \in CommittedAs(id) : k <= store[id]

\* The cycle returned after committing two items that map to the same
\* identifier.
C15_Witness ==
  /\ pc = "done"
  /\ \E id \in DOMAIN store : Cardinality(CommittedAs(id)) >= 2

\* C17: mediaLoader requests the first page (offset 0, limit batchSize) and
\* requests further pages only when the total of the first page exceeds
\* batchSize; the further pages are requested one after the other at the
\* offsets batchSize, 2 * batchSize, ... below that total, each after the
\* page before it has settled, so at most one request is outstanding, and a
\* cycle that returns has requested every such offset.
C17_MediaPagesSequential ==
  (loader = "media" /\ pc # "start") =>
    /\ Len(reqs) >= 1
    /\ \A i \in DOMAIN reqs :
         /\ reqs[i].limit = batchSize
         /\ reqs[i].offset = (i - 1) * batchSize
         /\ i < Len(reqs) => Delivered(reqs[i]) /\ reqs[i].body # "failed"
         /\ i >= 2 =>
              /\ reqs[1].st = "returned" /\ Ok(reqs[1].status)
              /\ reqs[1].body = "read"
              /\ reqs[1].total > batchSize
              /\ reqs[i].offset < reqs[1].total
    /\ Cardinality({i \in DOMAIN reqs : ~Settled(reqs[i])}) <= 1
    /\ pc = "done" =>
         \A o \in 0..(reqs[1].total - 1) :
           o % batchSize = 0 => \E i \in DOMAIN reqs : reqs[i].offset = o

\* The third page is outstanding, the first two having settled.
C17_Witness ==
  /\ loader = "media" /\ pc = "page"
  /\ Len(reqs) >= 3 /\ ~Settled(reqs[Len(reqs)])

\* The last "/"-separated segment of a string: its longest suffix without
\* a "/".
LastSegment(str) ==
  LET n == Len(str)
      starts == {i \in 1..(n + 1) : \A j \in i..n : str[j] # "/"}
      i == CHOOSE i \in starts : \A j \in starts : i <= j
  IN SubSeq(str, i, n)

IsPrefix(a, b) == Len(a) <= Len(b) /\ SubSeq(b, 1, Len(a)) = a

\* C19: transformPostToEntry builds the identifier as categoryPath + "/" +
\* actualSlug when categoryPath is non-empty and as actualSlug otherwise,
\* actualSlug being the last "/"-separated segment of the slug (so without
\* a "/"); for a slug that starts with categoryPath + "/" the prefix is not
\* duplicated, and a slug that is categoryPath + "/" + one segment is the
\* identifier itself.
C19_IdFromLastSegment ==
  (pc = "transformed" /\ entry.st = "returned") =>
    LET slug == post.slug[1]
        cat == CategoryPath(post)
        seg == LastSegment(slug)
    IN /\ ~Includes(seg, "/")
       /\ entry.id = IF cat # << >> THEN cat \o << "/" >> \o seg ELSE seg
       /\ (cat # << >> /\ IsPrefix(cat \o << "/" >>, slug)) =>
            /\ ~IsPrefix(cat \o << "/" >> \o cat \o << "/" >>, entry.id)
            /\ ~Includes(SubSeq(slug, Len(cat) + 2, Len(slug)), "/") =>
                 entry.id = slug

\* C20: the data transformPostToEntry produces has a tags field that is
\* the list of the tag names of postTags in their order, and the empty
\* list when postTags is absent or empty; a post without tags is
\* transformed like any other.
C20_TagsAlwaysList ==
  (pc = "transformed" /\ ~Nullish(post.slug)) =>
    /\ entry.st = "returned"
    /\ "tags" \in DOMAIN entry.data
    /\ IF Nullish(post.postTags)
       THEN entry.data["tags"] = Some(<< >>)
       ELSE /\ ~Nullish(entry.data["tags"])
            /\ Len(entry.data["tags"][1]) = Len(post.postTags[1])
            /\ \A n \in 1..Len(post.postTags[1]) :
                 entry.data["tags"][1][n] = post.postTags[1][n].tag.name

\* A post without postTags has been transformed.
C20_Witness ==
  /\ pc = "transformed" /\ entry.st = "returned"
  /\ post.postTags = Null /\ entry.data["tags"] = Some(<< >>)

\* The (offset, limit) pairs a cycle requests, as batchSize and the total
\* of the first response fix them.
PlannedRequests(t) ==
  IF loader = "cms"
  THEN {<< 0, 1 >>} \cup
       {<< o, batchSize >> : o \in {x \in 0..(t - 1) : x % batchSize = 0}}
  ELSE {<< 0, batchSize >>} \cup
       {<< o, batchSize >> : o \in {x \in 1..(t - 1) : x % batchSize = 0}}

\* The (offset, limit) pairs of the requests issued from the second on.
IssuedAfterFirst ==
  {<< reqs[i].offset, reqs[i].limit >> : i \in 2..Len(reqs)}

\* C18: the requests of a cycle are fixed by batchSize and the total of the
\* first response (the probe for posts, the first page for media): whatever
\* total a later response reports, every request issued is one of that
\* plan, none is issued twice, and a cycle that returns has issued them
\* all.
C18_PlanFromFirstTotal ==
  (loader \in {"cms", "media"} /\ Len(reqs) >= 2) =>
    LET plan == PlannedRequests(reqs[1].total) IN
    /\ IssuedAfterFirst \subseteq plan
    /\ \A i, j \in 2..Len(reqs) :
         reqs[i].offset = reqs[j].offset => i = j
    /\ pc = "done" =>
         plan = IssuedAfterFirst \cup {<< reqs[1].offset, reqs[1].limit >>}

\* The cycle returned, a later response having reported another total
\* than the first.
C18_Witness ==
  /\ pc = "done" /\ Len(reqs) >= 2
  /\ \E i \in 2..Len(reqs) :
       /\ reqs[i].st = "returned" /\ Ok(reqs[i].status)
       /\ reqs[i].total # reqs[1].total

\* The items whose catch block ran: their processing failed and they were
\* skipped.
Skipped == {caught[n] : n \in 1..Len(caught)}

\* C16: a second load cycle against the unchanged dataset, in which the
\* processing of the same items fails as in the first, leaves the store as
\* the first cycle left it (the same identifiers holding the same items),
\* whatever the store held before the first.
C16_SecondCycleSameStore ==
  (/\ cycle = 2 /\ pc = "done" /\ first.ended = "done"
   /\ Skipped = first.bad) => store = first.store

\* The keys of data other than lastModDate and minutesRead.
AlwaysKeys == DataKeys \ {"lastModDate", "minutesRead"}

\* C21: the data of transformPostToEntry holds lastModDate exactly when
\* the remote post has one (and then the remote date, never the current
\* time), minutesRead exactly when the remote value is set, and every
\* other field always.
C21_OnlySetFields ==
  (pc = "transformed" /\ entry.st = "returned") =>
    /\ "lastModDate" \in DOMAIN entry.data <=> ~Nullish(post.lastModDate)
    /\ "lastModDate" \in DOMAIN entry.data =>
         entry.data["lastModDate"] = Some(Date(post.lastModDate[1]))
    /\ "minutesRead" \in DOMAIN entry.data <=> ~Nullish(post.minutesRead)
    /\ AlwaysKeys \subseteq DOMAIN entry.data

\* The causes a failing request has: a transport error or a status code.
RequestCauses == FailureKinds \cup {"http500"}

\* C22: a load cycle that fails has logged an error through logger.error
\* before the exception leaves load, and the error logged last names the
\* failing URL or resource and the underlying cause (status code or
\* transport error), in cmsLoader and in mediaLoader, whatever request
\* failed.
C22_FailureLoggedWithUrl ==
  (loader \in {"cms", "media"} /\ pc = "failed") =>
    /\ logged # << >>
    /\ LET e == logged[Len(logged)] IN
       /\ e.lvl = "loader"
       /\ failure = "fetch" =>
            /\ e.cause \in RequestCauses
            /\ e.names \in {"url", "resource"}

\* C23: when CMS_API_URL is absent or empty, blog and photos both use the
\* local-file loaders, neither CMS loader runs and no HTTP request is
\* issued; when it is set, blog uses cmsLoader and photos uses mediaLoader
\* with that base URL.
C23_UrlSelectsLoaders ==
  pc \notin {"config", "standalone", "transform", "transformed"} =>
    IF cmsApiUrl = Undefined \/ cmsApiUrl = Some("")
    THEN /\ collections.blog.kind = "glob"
         /\ collections.photos.kind = "file"
         /\ loader \notin {"cms", "media"}
         /\ reqs = << >>
    ELSE /\ collections.blog = [kind |-> "cms", apiBaseUrl |-> cmsApiUrl[1]]
         /\ collections.photos =
              [kind |-> "media", apiBaseUrl |-> cmsApiUrl[1]]
         /\ loader \in {"cms", "media", "none"}

\* With CMS_API_URL empty the blog collection was synced by the local
\* loader.
C23_Witness ==
  /\ cmsApiUrl = Some("") /\ loader = "glob" /\ pc = "done"

\* The items of allPosts before position n.
Before(n) == {allPosts[j] : j \in 1..Min(n - 1, Len(allPosts))}

\* C24: while cmsLoader processes, one item at a time is being transformed,
\* validated or rendered, in fetch order: the item at idx is in hand, every
\* item before it has been committed or skipped and none after it has been
\* touched, and the store.set calls follow the order of the fetched items.
C24_OneItemAtATime ==
  (loader = "cms" /\ pc \in {"process", "done"}) =>
    /\ pc = "process" =>
         idx \in 1..Len(allPosts) /\ step \in {"transform", "parse", "render"}
    /\ pc = "done" => idx = Len(allPosts) + 1
    /\ Committed \cup Skipped = Before(idx)
    /\ Committed \cap Skipped = {}
    /\ \A m, n \in 1..Len(setCalls) :
         m < n =>
           \E i, j \in 1..Len(allPosts) :
             i < j /\ allPosts[i] = setCalls[m] /\ allPosts[j] = setCalls[n]

\* The third item is being rendered, the first having been committed and
\* the second, a post without slug, skipped: the one error logged names
\* "undefined".
C24_Witness ==
  /\ loader = "cms" /\ pc = "process" /\ idx = 3 /\ step = "render"
  /\ setCalls = << allPosts[1] >> /\ Skipped = {allPosts[2]}
  /\ Len(logged) = 1 /\ logged[1].names = "undefined"

\* C25: when a batch request fails and cmsLoader.load throws, no request of
\* the cycle is outstanding.
C25_NothingOutstandingAfterThrow ==
  (loader = "cms" /\ pc = "failed") =>
    \A i \in DOMAIN reqs : Settled(reqs[i])

\* Timer a of request i fires in the step: it was pending and is gone, and
\* the step is not the clearTimeout of the attempt's response.
TimerFired(i, a) ==
  /\ i \in DOMAIN reqs /\ i \in DOMAIN reqs'
  /\ a \in reqs[i].timers /\ a \notin reqs'[i].timers
  /\ ~(reqs[i].st = "inflight" /\ reqs[i].attempt = a
        /\ reqs'[i].st = "returned")

\* C26: every attempt of fetchWithRetry has its own timer and controller:
\* a timer that fires aborts the attempt that armed it if that attempt is
\* in flight, and changes nothing else, neither another request nor a
\* later attempt of the same request.
C26_TimerAbortsOwnAttempt ==
  [][\A i \in DOMAIN reqs : \A a \in reqs[i].timers :
       TimerFired(i, a) =>
         /\ \A j \in DOMAIN reqs \ {i} : reqs'[j] = reqs[j]
         /\ IF reqs[i].st = "inflight" /\ reqs[i].attempt = a
            THEN reqs'[i].lastError = [kind |-> "timeout", attempt |-> a]
            ELSE reqs'[i] = [reqs[i] EXCEPT !.timers = @ \ {a}]]_vars

\* The timer of the first attempt, which failed on the network, has fired
\* while the second attempt of the request is in flight and a sibling
\* request is outstanding.
C26_Witness ==
  /\ loader = "cms"
  /\ \E i, j \in Batches :
       /\ i # j /\ ~Settled(reqs[j])
       /\ reqs[i].st = "inflight" /\ reqs[i].attempt = 2
       /\ reqs[i].lastError.kind = "network"
       /\ reqs[i].timers = {2}

\* C27: once fetchWithRetry has returned or thrown, no timer it armed is
\* pending.
C27_NoTimerPendingAfterCall ==
  \A i \in DOMAIN reqs : Settled(reqs[i]) => reqs[i].timers = {}

\* The remote dataset, in order.
Dataset == [k \in 1..remote |-> k]

\* C28: against a static dataset, the ranges [i * batchSize, (i + 1) *
\* batchSize) of the batch requests of a cmsLoader cycle cover every index
\* 0 .. total - 1 exactly once, and the aggregated list is the dataset in
\* order, no item missing or duplicated and the item of the probe not
\* added.
C28_AggregateIsDataset ==
  CmsFetched =>
    /\ \A x \in 0..(remote - 1) :
         Cardinality({i \in Batches :
                        /\ reqs[i].offset <= x
                        /\ x < reqs[i].offset + reqs[i].limit}) = 1
    /\ allPosts = Dataset

\* A cycle has aggregated a dataset of several batches, the last one
\* partial, and the probe had returned an item.
C28_Witness ==
  /\ CmsFetched /\ batchSize = 2 /\ remote = 5
  /\ Len(reqs[1].posts) = 1 /\ Len(allPosts) = 5

\* load has returned or thrown.
Terminated == pc \in {"done", "failed"}

\* C29: with batchSize >= 1, a finite total and a transport in which every
\* attempt eventually responds, fails or times out, a load cycle of
\* cmsLoader or mediaLoader eventually returns or throws, and no request
\* makes more than maxRetries attempts.
C29_LoadTerminates ==
  /\ [](\A i \in DOMAIN reqs : reqs[i].calls <= reqs[i].maxRetries)
  /\ <>Terminated

\* C30: an item of cmsLoader is committed atomically.  The store changes
\* only by the store.set of the item in hand, called when renderMarkdown,
\* the last of transformPostToEntry, parseData and renderMarkdown, has
\* succeeded; every other step of the item, and the step in which one of
\* the three fails and the item is logged, leaves the store as it was,
\* the entry an earlier item left under the same identifier included.
C30_ItemCommitIsAtomic ==
  [][(loader = "cms" /\ pc = "process") =>
       /\ setCalls' # setCalls =>
            /\ step = "render"
            /\ setCalls' = Append(setCalls, allPosts[idx])
            /\ store' = [id \in (DOMAIN store) \cup {IdOf(allPosts[idx])} |->
                           IF id = IdOf(allPosts[idx]) THEN allPosts[idx]
                           ELSE store[id]]
       /\ setCalls' = setCalls => store' = store
       /\ logged' # logged => (setCalls' = setCalls /\ store' = store)]_vars

\* An item failed, and the store still holds the entry an earlier item of
\* the cycle left under its identifier.
C30_Witness ==
  /\ loader = "cms" /\ pc \in {"process", "done"}
  /\ \E k \in Skipped :
       /\ IdOf(k) \in DOMAIN store
       /\ store[IdOf(k)] \in Committed
       /\ store[IdOf(k)] # k

\* The number of store.set calls made for item k.
TimesCommitted(k) == Cardinality({n \in 1..Len(setCalls) : setCalls[n] = k})

\* The number of times the catch block ran for item k.
TimesSkipped(k) == Cardinality({n \in 1..Len(caught) : caught[n] = k})

\* C31: when cmsLoader returns, the count it reports is the number of
\* store.set calls of the cycle, which is the number of fetched items minus
\* the items skipped, and every fetched item was attempted exactly once:
\* it was either committed once or skipped once, never both and never
\* twice.
C31_CountIsCommitted ==
  (loader = "cms" /\ pc = "done") =>
    /\ totalFetched = Len(setCalls)
    /\ totalFetched = Len(allPosts) - Cardinality(Skipped)
    /\ \A j \in 1..Len(allPosts) :
         TimesCommitted(allPosts[j]) + TimesSkipped(allPosts[j]) = 1

\* A cycle returned with three items fetched, one of them, a post without
\* slug, skipped.
C31_Witness ==
  /\ loader = "cms" /\ pc = "done"
  /\ Len(allPosts) = 3 /\ Cardinality(Skipped) = 1 /\ totalFetched = 2
  /\ \E n \in 1..Len(logged) : logged[n].names = "undefined"

\* The probe of cmsLoader returned a 2xx response whose body, once read,
\* reports total = 0.
ProbeReportsNone ==
  /\ loader = "cms" /\ Len(reqs) >= 1
  /\ reqs[1].st = "returned" /\ Ok(reqs[1].status)
  /\ reqs[1].body = "read" /\ reqs[1].total = 0

\* C32: when the probe reports total = 0, cmsLoader issues no batch
\* request, processes and commits nothing, and has returned normally with
\* the store empty and a count of 0.
C32_EmptyDatasetLoadsNothing ==
  ProbeReportsNone =>
    /\ pc = "done" /\ failure = "none"
    /\ Len(reqs) = 1
    /\ allPosts = << >> /\ setCalls = << >> /\ logged = << >>
    /\ store = EmptyStore
    /\ totalFetched = 0

\* The probe needed a second attempt before it reported an empty dataset.
C32_Witness ==
  /\ ProbeReportsNone /\ pc = "done" /\ clears = 1
  /\ reqs[1].calls = 2

\* The calls of processPhotos made so far, and those whose GET has its
\* data.
Called == {c \in DOMAIN callers : callers[c].st # "idle"}
Served == {c \in DOMAIN callers : callers[c].st = "done"}

\* C33 as stated: in any interleaving of calls of processPhotos the
\* processing body runs at most once and every caller observes a list, the
\* same list for all.
C33_AllObserveSameList ==
  /\ body.runs <= 1
  /\ \A c \in Served :
       /\ callers[c].got # Null
       /\ callers[c].got[1].ok
       /\ \A d \in Served : callers[d].got[1].list = callers[c].got[1].list

\* C33: in any interleaving of calls of processPhotos, the processing
\* body runs at most once (once, as soon as one call was made); a call
\* made while it is in progress awaits the promise of that run, a call
\* made after it completed takes the cached list, a call made after it
\* threw awaits the rejected promise of that run; every caller served
\* after the body completed observes the list the one run produced, and
\* every caller served after the body threw observes its rejection: no
\* two callers observe different lists, and no caller observes a list
\* when another observes a rejection.
C33_ProcessesOnce ==
  /\ body.runs <= 1
  /\ Called # {} => body.runs = 1
  /\ \A c \in Called :
       /\ callers[c].during = "none" => callers[c].via = "start"
       /\ callers[c].during \in {"pending", "rejected"} =>
            callers[c].via = "promise"
       /\ callers[c].during = "fulfilled" =>
            /\ callers[c].via = "cache"
            /\ HasData(_data)
            /\ callers[c].got = Some(Fulfilled(_data[1]))
  /\ HasData(_data) <=> PromiseState(_dataPromise) = "fulfilled"
  /\ HasData(_data) =>
       _data[1] = body.data /\ _dataPromise[1].value = body.data
  /\ \A c \in Served :
       /\ PromiseState(_dataPromise) \in {"fulfilled", "rejected"}
       /\ PromiseState(_dataPromise) = "fulfilled" =>
            callers[c].got = Some(Fulfilled(body.data))
       /\ PromiseState(_dataPromise) = "rejected" =>
            callers[c].got = Some(Rejected)

\* Three requests were served the same list, the second photo in it
\* twice: the first started the body, the second came while it was
\* suspended on an await, the third after it had completed.
C33_Witness ==
  /\ pc = "route" /\ body.runs = 1 /\ Served = {1, 2, 3}
  /\ callers[1].via = "start" /\ callers[2].via = "promise"
  /\ callers[2].during = "pending" /\ callers[3].via = "cache"
  /\ callers[3].got = Some(Fulfilled(<< 1, 2, 2 >>))

====
